---- MODULE Spec2Model ----
(***************************************************************************)
(* Model of pyrtf's table layout engine (src/table.py, class Table).       *)
(*                                                                         *)
(* A Table is immutable after __init__: its state is (columns, data,       *)
(* lmargin).  Every method is a call on that state; the model records the  *)
(* outcome of the last call (the exception raised, or the value returned). *)
(*                                                                         *)
(* Python floats are modelled by exact rationals <<n, d>>.  The binary     *)
(* rounding of a float is below 1e-8 for every magnitude that occurs here, *)
(* so it can only change int(x) when the exact value of x is a whole       *)
(* number: int() of such a value may come out one unit nearer zero.  The   *)
(* model keeps both outcomes unless every operand is a dyadic rational or  *)
(* the table has one column, in which cases the float arithmetic is exact. *)
(*                                                                         *)
(* Of src/pyrtf.py the model holds TextRun (run: the object __init__       *)
(* builds, its text already passed through md2rtf; raw is the argument it  *)
(* was built from) and Paragraph (para, with para_ds the double_space      *)
(* argument given to __init__).  A Python str that is searched or rewritten *)
(* is a sequence of one-character strings.                                 *)
(***************************************************************************)
EXTENDS Integers, Sequences, FiniteSets, TLC

VARIABLES columns, data, lmargin, op, arg, exc, extents, rows, value,
          run, run_str, para, para_ds, para_str

vars == <<columns, data, lmargin, op, arg, exc, extents, rows, value,
          run, run_str, para, para_ds, para_str>>

-----------------------------------------------------------------------------
(* Bounds of the explored inputs *)

MaxCols == 2

MaxRows == 2

MaxLen == 4

MaxRuns == 2

-----------------------------------------------------------------------------
(* Exact rational arithmetic standing for Python float arithmetic *)

Abs(x) == IF x < 0 THEN -x ELSE x

Sign(x) == IF x < 0 THEN -1 ELSE IF x > 0 THEN 1 ELSE 0

RECURSIVE GCD(_, _)
GCD(a, b) == IF b = 0 THEN a ELSE GCD(b, a % b)

Rat(n, d) ==
    LET g == GCD(Abs(n), Abs(d))
        s == IF d < 0 THEN -1 ELSE 1
    IN  <<s * (n \div g), s * (d \div g)>>

RInt(i) == <<i, 1>>

RMul(a, b) ==
    LET x == Rat(a[1], b[2])
        y == Rat(b[1], a[2])
    IN  Rat(x[1] * y[1], x[2] * y[2])

RDiv(a, b) == RMul(a, Rat(b[2], b[1]))

RAdd(a, b) ==
    LET g == GCD(a[2], b[2])
        l == (a[2] \div g) * b[2]
    IN  Rat(a[1] * (l \div a[2]) + b[1] * (l \div b[2]), l)

RGt(a, b) == a[1] * b[2] > b[1] * a[2]

RIsWhole(a) == a[2] = 1

\* int(x): truncation toward zero
RTrunc(a) == Sign(a[1]) * (Abs(a[1]) \div a[2])

RECURSIVE IsPow2(_)
IsPow2(d) == IF d = 1 THEN TRUE ELSE IF d % 2 = 1 THEN FALSE ELSE IsPow2(d \div 2)

\* a value a binary float holds exactly
Dyadic(a) == IsPow2(a[2])

\* int(x) of a float x whose exact value is a: a rounding error in x shows
\* only when a is a non-zero whole number
IntOfFloat(a, exact) ==
    IF RIsWhole(a) /\ a[1] # 0 /\ ~exact
    THEN {a[1], a[1] - Sign(a[1])}
    ELSE {RTrunc(a)}

RECURSIVE RSum(_)
RSum(s) == IF s = <<>> THEN RInt(0) ELSE RAdd(RSum(SubSeq(s, 1, Len(s) - 1)), s[Len(s)])

-----------------------------------------------------------------------------
(* Python values *)

\* Optional values (None or a value)
None == [some |-> FALSE, s |-> "", i |-> 0]

SomeStr(x) == [some |-> TRUE, s |-> x, i |-> 0]

SomeInt(x) == [some |-> TRUE, s |-> "", i |-> x]

\* Column.width: None, a list, a str (sequence of characters) or a number
WNone == [t |-> "none", s |-> <<>>, n |-> 0, d |-> 1]

WList == [t |-> "list", s |-> <<>>, n |-> 0, d |-> 1]

WStr(chars) == [t |-> "str", s |-> chars, n |-> 0, d |-> 1]

WNum(n, d) == [t |-> "num", s |-> <<>>, n |-> n, d |-> d]

\* Column.property: None, an int or a str
PNone == [t |-> "none", s |-> <<>>, i |-> 0]

PInt(i) == [t |-> "int", s |-> <<>>, i |-> i]

PStr(chars) == [t |-> "str", s |-> chars, i |-> 0]

\* A data row: a list of str, a dict (keys[k] maps to items[k]) or anything else
ListRow(items) == [t |-> "list", keys |-> <<>>, items |-> items]

DictRow(keys, items) == [t |-> "dict", keys |-> keys, items |-> items]

OtherRow == [t |-> "other", keys |-> <<>>, items |-> <<>>]

Column(width, property, header, hfont, hcolor) ==
    [width |-> width, borders |-> <<>>, alignment |-> None, property |-> property,
     header |-> header, hfont |-> hfont, dfont |-> None, hcolor |-> hcolor,
     dcolor |-> None]

-----------------------------------------------------------------------------
(* float(str) and int(str) *)

Digits == {"0", "1", "2", "3", "4", "5", "6", "7", "8", "9"}

DigitVal(c) ==
    CASE c = "0" -> 0 [] c = "1" -> 1 [] c = "2" -> 2 [] c = "3" -> 3
      [] c = "4" -> 4 [] c = "5" -> 5 [] c = "6" -> 6 [] c = "7" -> 7
      [] c = "8" -> 8 [] c = "9" -> 9

RECURSIVE DigitsVal(_)
DigitsVal(s) ==
    IF s = <<>> THEN 0
    ELSE 10 * DigitsVal(SubSeq(s, 1, Len(s) - 1)) + DigitVal(s[Len(s)])

RECURSIVE Pow10(_)
Pow10(k) == IF k = 0 THEN 1 ELSE 10 * Pow10(k - 1)

DotAt(s) == {k \in 1..Len(s) : s[k] = "."}

NoDots(s) == SelectSeq(s, LAMBDA c : c # ".")

\* float(s) for a decimal literal: digits with at most one point
FloatStr(s) ==
    LET ds == NoDots(s)
        ok == /\ Cardinality(DotAt(s)) <= 1
              /\ ds # <<>>
              /\ \A k \in 1..Len(ds) : ds[k] \in Digits
        frac == IF DotAt(s) = {} THEN 0 ELSE Len(s) - (CHOOSE k \in DotAt(s) : TRUE)
    IN  IF ok THEN [exc |-> "none", w |-> Rat(DigitsVal(ds), Pow10(frac))]
        ELSE [exc |-> "ValueError", w |-> RInt(0)]

\* int(s) for a str: digits only
IntStr(s) ==
    IF s # <<>> /\ \A k \in 1..Len(s) : s[k] \in Digits
    THEN [exc |-> "none", i |-> DigitsVal(s)]
    ELSE [exc |-> "ValueError", i |-> 0]

-----------------------------------------------------------------------------
(* Table.column_widths *)

doc_width == 9360

\* the isinstance chain: the float w a column's width converts to
ParseWidth(width) ==
    IF width.t = "str" /\ width.s = <<>>
    THEN [exc |-> "IndexError", w |-> RInt(0)]
    ELSE IF width.t = "str" /\ width.s[Len(width.s)] = "%"
    THEN FloatStr(<<".">> \o SubSeq(width.s, 1, Len(width.s) - 1))
    ELSE IF width.t = "str"
    THEN FloatStr(width.s)
    ELSE IF width.t = "num"
    THEN [exc |-> "none", w |-> Rat(width.n, width.d)]
    ELSE [exc |-> "ValueError", w |-> RInt(0)]

\* int(column.width)
IntWidth(width) ==
    IF width.t = "str" THEN IntStr(width.s)
    ELSE [exc |-> "none", i |-> RTrunc(Rat(width.n, width.d))]

\* the boundary moved: w >= 1 taken as a count of twips
IsUnitsInclusive(w) == ~RGt(RInt(1), w)

\* the unit test of the loop body: w > 1 is a count of twips
IsUnits(w) == RGt(w, RInt(1))

\* one iteration of the loop: the exception raised, or the mode the column
\* sets and the width appended
ResolveWidth(width) ==
    LET p == ParseWidth(width)
    IN  IF p.exc # "none" THEN [exc |-> p.exc, units |-> FALSE, w |-> RInt(0)]
        ELSE IF IsUnits(p.w)
        THEN [exc |-> IntWidth(width).exc, units |-> TRUE, w |-> RInt(IntWidth(width).i)]
        ELSE [exc |-> "none", units |-> FALSE, w |-> RMul(p.w, RInt(doc_width))]

Resolved(cols) == [c \in 1..Len(cols) |-> ResolveWidth(cols[c].width)]

\* the loop stops at the first column that raises
FirstRaise(res) ==
    IF \E c \in 1..Len(res) : res[c].exc # "none"
    THEN res[CHOOSE c \in 1..Len(res) :
                /\ res[c].exc # "none"
                /\ \A b \in 1..(c - 1) : res[b].exc = "none"].exc
    ELSE "none"

use_percent(res) == \E c \in 1..Len(res) : ~res[c].units

use_units(res) == \E c \in 1..Len(res) : res[c].units

\* the flags overwritten by every column instead of accumulated
MixedModesLastColumn(res) ==
    /\ res # <<>>
    /\ ~res[Len(res)].units
    /\ res[Len(res)].units

MixedModes(res) == use_percent(res) /\ use_units(res)

\* the widths used as declared, without the coercion
coerced_widths_as_is(widths, margin) == widths

\* the coercion to the page width, forgetting the left margin
coerced_widths_no_margin(widths, margin) ==
    [c \in 1..Len(widths) |->
        RMul(RDiv(widths[c], RSum(widths)), RInt(doc_width))]

\* [w / total_width * (doc_width - self.lmargin) for w in widths]
coerced_widths(widths, margin) ==
    [c \in 1..Len(widths) |->
        RMul(RDiv(widths[c], RSum(widths)), RInt(doc_width - margin))]

\* if use_percent: [w * (doc_width - self.lmargin) for w in coerced_widths]
percent_widths(coerced, percent, margin) ==
    IF percent
    THEN [c \in 1..Len(coerced) |-> RMul(coerced[c], RInt(doc_width - margin))]
    ELSE coerced

\* extents.append(w), the running total left out
cumulative_extents_no_total(ws) == ws

\* extents.append(w + total_width); total_width += w
cumulative_extents(ws) == [c \in 1..Len(ws) |-> RSum(SubSeq(ws, 1, c))]

\* the float arithmetic is exact when every operand is dyadic, and for a
\* single column (w / w is 1.0)
ExactFloats(cols, res, widths) ==
    \/ Len(widths) = 1
    \/ /\ \A c \in 1..Len(cols) : Dyadic(ParseWidth(cols[c].width).w)
       /\ \A c \in 1..Len(widths) : Dyadic(RDiv(widths[c], RSum(widths)))

\* int(w) for w in extents
RECURSIVE int_extents(_, _)
int_extents(ext, exact) ==
    IF ext = <<>> THEN {<<>>}
    ELSE {Append(e, i) : e \in int_extents(SubSeq(ext, 1, Len(ext) - 1), exact),
                         i \in IntOfFloat(ext[Len(ext)], exact)}

ColumnWidthsResult(cols, margin) ==
    LET res == Resolved(cols)
        widths == [c \in 1..Len(res) |-> res[c].w]
    IN  IF FirstRaise(res) # "none"
        THEN {[exc |-> FirstRaise(res), extents |-> <<>>]}
        ELSE IF MixedModes(res)
        THEN {[exc |-> "ValueError", extents |-> <<>>]}
        ELSE IF widths # <<>> /\ RSum(widths)[1] = 0
        THEN {[exc |-> "ZeroDivisionError", extents |-> <<>>]}
        ELSE LET final == percent_widths(coerced_widths(widths, margin),
                                         use_percent(res), margin)
                 ext == cumulative_extents(final)
             IN  {[exc |-> "none", extents |-> e] :
                    e \in int_extents(ext, ExactFloats(cols, res, widths))}

\* ''.join('\\cellx{}'.format(int(w)) ...) + '\n'
RECURSIVE rtf_widths(_)
rtf_widths(e) ==
    IF e = <<>> THEN "\n"
    ELSE "\\cellx" \o ToString(e[1]) \o rtf_widths(SubSeq(e, 2, Len(e)))

-----------------------------------------------------------------------------
(* Table.column_rtf_templates, has_headers, headers, data_value, data_row *)

\* one template per column: alignment, border letters, and the %s slot
column_rtf_templates(cols) ==
    [c \in 1..Len(cols) |->
        [align |-> IF cols[c].alignment.some THEN cols[c].alignment.s ELSE "l",
         borders |-> SelectSeq(cols[c].borders, LAMBDA b : b \in {"l", "r", "t", "b"})]]

\* cell % text
FillCell(cell, text) == [align |-> cell.align, borders |-> cell.borders, text |-> text]

has_headers(cols) == \E c \in 1..Len(cols) : cols[c].header.some

\* the body of the loop for one column that has a header
HeaderCell(column, cell) ==
    IF column.hcolor.some
    THEN [exc |-> "UnboundLocalError", cell |-> FillCell(cell, "")]
    ELSE [exc |-> "none",
          cell |-> FillCell(cell,
                    (IF column.hfont.some THEN "\\f" \o ToString(column.hfont.i) ELSE "")
                    \o " " \o column.header.s)]

RECURSIVE headers(_, _, _)
headers(cols, cells, c) ==
    IF c > Len(cells) THEN [exc |-> "none", cells |-> <<>>]
    ELSE IF ~cols[c].header.some THEN headers(cols, cells, c + 1)
    ELSE LET h == HeaderCell(cols[c], cells[c])
             rest == headers(cols, cells, c + 1)
         IN  IF h.exc # "none" THEN [exc |-> h.exc, cells |-> <<>>]
             ELSE IF rest.exc # "none" THEN rest
             ELSE [exc |-> "none", cells |-> <<h.cell>> \o rest.cells]

\* int(column.property)
IntProperty(property) ==
    IF property.t = "none" THEN [exc |-> "TypeError", i |-> 0]
    ELSE IF property.t = "int" THEN [exc |-> "none", i |-> property.i]
    ELSE IntStr(property.s)

KeyAt(row, property) == {k \in 1..Len(row.keys) : row.keys[k] = property}

data_value(column, row) ==
    IF row.t = "list"
    THEN LET p == IntProperty(column.property)
             n == Len(row.items)
         IN  IF p.exc # "none" THEN [exc |-> p.exc, v |-> ""]
             ELSE IF p.i >= 0 /\ p.i < n THEN [exc |-> "none", v |-> row.items[p.i + 1]]
             ELSE IF p.i < 0 /\ -p.i <= n THEN [exc |-> "none", v |-> row.items[n + p.i + 1]]
             ELSE [exc |-> "IndexError", v |-> ""]
    ELSE IF row.t = "dict"
    THEN IF KeyAt(row, column.property) # {}
         THEN [exc |-> "none", v |-> row.items[CHOOSE k \in KeyAt(row, column.property) : TRUE]]
         ELSE [exc |-> "KeyError", v |-> ""]
    ELSE [exc |-> "none", v |-> "#ERR#"]

DataCell(column, cell, row) ==
    LET dv == data_value(column, row)
    IN  [exc |-> dv.exc,
         cell |-> FillCell(cell,
                    (IF column.dfont.some THEN "\\f" \o ToString(column.dfont.i) ELSE "")
                    \o (IF column.dcolor.some THEN "\\cf" \o ToString(column.dcolor.i) ELSE "")
                    \o dv.v)]

RECURSIVE data_row(_, _, _, _)
data_row(cols, cells, row, c) ==
    IF c > Len(cells) THEN [exc |-> "none", cells |-> <<>>]
    ELSE LET d == DataCell(cols[c], cells[c], row)
             rest == data_row(cols, cells, row, c + 1)
         IN  IF d.exc # "none" THEN [exc |-> d.exc, cells |-> <<>>]
             ELSE IF rest.exc # "none" THEN rest
             ELSE [exc |-> "none", cells |-> <<d.cell>> \o rest.cells]

-----------------------------------------------------------------------------
(* Table.__str__ *)

\* begin_row() + rtf_widths + rtf + end_row(); kind and r_idx record which
\* append of __str__ produced the block
RowBlock(kind, r_idx, widths, cells) ==
    [kind |-> kind, r_idx |-> r_idx, begin |-> "{\\trowd\\trgaph180\n",
     widths |-> widths, cells |-> cells, end |-> "\\row}\n"]

\* the for loop over self.data, from row r on
RECURSIVE DataBlocks(_, _, _, _, _)
DataBlocks(cols, cells, rowdata, widths, r) ==
    IF r > Len(rowdata) THEN [exc |-> "none", rows |-> <<>>]
    ELSE LET d == data_row(cols, cells, rowdata[r], 1)
             rest == DataBlocks(cols, cells, rowdata, widths, r + 1)
         IN  IF d.exc # "none" THEN [exc |-> d.exc, rows |-> <<>>]
             ELSE IF rest.exc # "none" THEN rest
             ELSE [exc |-> "none",
                   rows |-> <<RowBlock("data", r - 1, widths, d.cells)>> \o rest.rows]

HeaderBlocks(cols, cells, widths) ==
    IF has_headers(cols)
    THEN LET h == headers(cols, cells, 1)
         IN  IF h.exc # "none" THEN [exc |-> h.exc, rows |-> <<>>]
             ELSE [exc |-> "none", rows |-> <<RowBlock("header", 0, widths, h.cells)>>]
    ELSE [exc |-> "none", rows |-> <<>>]

StrOf(cols, rowdata, cw) ==
    IF cw.exc # "none" THEN [exc |-> cw.exc, rows |-> <<>>]
    ELSE LET cells == column_rtf_templates(cols)
             widths == rtf_widths(cw.extents)
             h == HeaderBlocks(cols, cells, widths)
             d == DataBlocks(cols, cells, rowdata, widths, 1)
         IN  IF h.exc # "none" THEN [exc |-> h.exc, rows |-> <<>>]
             ELSE IF d.exc # "none" THEN [exc |-> d.exc, rows |-> <<>>]
             ELSE [exc |-> "none", rows |-> h.rows \o d.rows]

StrResult(cols, rowdata, margin) ==
    {StrOf(cols, rowdata, cw) : cw \in ColumnWidthsResult(cols, margin)}

-----------------------------------------------------------------------------
(* TextRun (src/pyrtf.py) *)

\* the italics rules declared ahead of the bold rules
replacements_italics_first ==
    << [old |-> <<" ", "_">>,
        new |-> <<" ", "\\", "i", " ">>],
       [old |-> <<"_", " ">>,
        new |-> <<"\\", "i", "0", " ", " ">>],
       [old |-> <<"_", ",", " ">>,
        new |-> <<"\\", "i", "0", " ", ",", " ">>],
       [old |-> <<"_", ".">>,
        new |-> <<"\\", "i", "0", " ", ".">>],
       [old |-> <<" ", "_", "_">>,
        new |-> <<" ", "\\", "b", " ">>],
       [old |-> <<"_", "_", " ">>,
        new |-> <<"\\", "b", "0", " ", " ">>],
       [old |-> <<"_", "_", ",", " ">>,
        new |-> <<"\\", "b", "0", " ", ",", " ">>],
       [old |-> <<"_", "_", ".">>,
        new |-> <<"\\", "b", "0", " ", ".">>],
       [old |-> <<"[", "[">>,
        new |-> <<"\\", "s", "c", "a", "p", "s", " ">>],
       [old |-> <<"]", "]">>,
        new |-> <<"\\", "s", "c", "a", "p", "s", "0", " ">>],
       [old |-> <<"\\", "n">>,
        new |-> <<"\\", "l", "i", "n", "e", " ", "\n">>],
       [old |-> <<"[", "N", "O", "T", "E", ":", " ">>,
        new |-> <<"[", "\\", "b", "\\", "c", "f", "2", " ", "N", "O", "T", "E", "\\", "b", "0", "\\", "c", "f", "1", " ", ":">>] >>

\* TextRun.replacements, in declared order
replacements ==
    << [old |-> <<" ", "_", "_">>,
        new |-> <<" ", "\\", "b", " ">>],
       [old |-> <<"_", "_", " ">>,
        new |-> <<"\\", "b", "0", " ", " ">>],
       [old |-> <<"_", "_", ",", " ">>,
        new |-> <<"\\", "b", "0", " ", ",", " ">>],
       [old |-> <<"_", "_", ".">>,
        new |-> <<"\\", "b", "0", " ", ".">>],
       [old |-> <<" ", "_">>,
        new |-> <<" ", "\\", "i", " ">>],
       [old |-> <<"_", " ">>,
        new |-> <<"\\", "i", "0", " ", " ">>],
       [old |-> <<"_", ",", " ">>,
        new |-> <<"\\", "i", "0", " ", ",", " ">>],
       [old |-> <<"_", ".">>,
        new |-> <<"\\", "i", "0", " ", ".">>],
       [old |-> <<"[", "[">>,
        new |-> <<"\\", "s", "c", "a", "p", "s", " ">>],
       [old |-> <<"]", "]">>,
        new |-> <<"\\", "s", "c", "a", "p", "s", "0", " ">>],
       [old |-> <<"\\", "n">>,
        new |-> <<"\\", "l", "i", "n", "e", " ", "\n">>],
       [old |-> <<"[", "N", "O", "T", "E", ":", " ">>,
        new |-> <<"[", "\\", "b", "\\", "c", "f", "2", " ", "N", "O", "T", "E", "\\", "b", "0", "\\", "c", "f", "1", " ", ":">>] >>

\* str.replace(old, new): left to right, non-overlapping
RECURSIVE Replace(_, _, _)
Replace(t, old, new) ==
    IF Len(t) < Len(old) THEN t
    ELSE IF SubSeq(t, 1, Len(old)) = old
    THEN new \o Replace(SubSeq(t, Len(old) + 1, Len(t)), old, new)
    ELSE <<t[1]>> \o Replace(Tail(t), old, new)

\* the for loop of md2rtf, from rule k on
RECURSIVE ApplyRules(_, _, _)
ApplyRules(t, rules, k) ==
    IF k > Len(rules) THEN t
    ELSE ApplyRules(Replace(t, rules[k].old, rules[k].new), rules, k + 1)

md2rtf(t) == ApplyRules(t, replacements, 1)

\* TextRun.Properties: color is False or a colour number, underline is
\* False or a style string
Props(color, bold, italic, underline, all_caps, small_caps, strike, outline) ==
    [color |-> color, bold |-> bold, italic |-> italic, underline |-> underline,
     all_caps |-> all_caps, small_caps |-> small_caps, strike |-> strike,
     outline |-> outline]

DefaultProps == Props(None, FALSE, FALSE, None, FALSE, FALSE, FALSE, FALSE)

\* TextRun(text, props)
TextRun(t, props) ==
    [raw |-> t, text |-> md2rtf(t), color |-> props.color, bold |-> props.bold,
     italic |-> props.italic, underline |-> props.underline,
     all_caps |-> props.all_caps, small_caps |-> props.small_caps,
     strike_through |-> props.strike, outline |-> props.outline]

\* the prefix TextRun.__str__ builds
RunPre(r) ==
    (IF r.color.some THEN "\\cf" \o ToString(r.color.i) ELSE "")
    \o (IF r.bold THEN "\\b" ELSE "")
    \o (IF r.italic THEN "\\i" ELSE "")
    \o (IF r.underline.some THEN "\\ul" \o r.underline.s ELSE "")
    \o (IF r.all_caps THEN "\\caps" ELSE "")
    \o (IF r.small_caps THEN "\\scaps" ELSE "")
    \o (IF r.strike_through THEN "\\strike" ELSE "")
    \o (IF r.outline THEN "\\outl" ELSE "")

\* TextRun.__str__: '{%s}\n' % text, or '{%s %s}\n' % (pre, text)
RunStr(r) ==
    [called |-> TRUE, pre |-> RunPre(r), sep |-> IF RunPre(r) = "" THEN "" ELSE " ",
     text |-> r.text]

NoRunStr == [called |-> FALSE, pre |-> "", sep |-> "", text |-> <<>>]

-----------------------------------------------------------------------------
(* Paragraph (src/pyrtf.py) *)

\* Paragraph(double_space, alignment)
Paragraph(double_space, alignment) ==
    [text |-> <<>>, double_space |-> FALSE, alignment |-> alignment,
     is_header |-> FALSE, indent_first_line |-> TRUE]

set_header(pg) == [pg EXCEPT !.is_header = TRUE, !.indent_first_line = FALSE]

add_text(pg, r) == [pg EXCEPT !.text = Append(pg.text, r)]

\* Paragraph.__str__: the fragments it concatenates, in order
ParagraphStr(pg) ==
    [called |-> TRUE,
     spacing |-> IF pg.double_space THEN "\\sl480\\slmult1" ELSE "",
     alignment |-> pg.alignment,
     keep |-> IF pg.is_header THEN "\\keepn" ELSE "",
     indent |-> IF pg.indent_first_line /\ ~pg.is_header THEN "\\fi720" ELSE "",
     texts |-> [k \in 1..Len(pg.text) |-> RunStr(pg.text[k])]]

NoParagraphStr ==
    [called |-> FALSE, spacing |-> "", alignment |-> "", keep |-> "", indent |-> "",
     texts |-> <<>>]

-----------------------------------------------------------------------------
(* Tables explored *)

BoundedSeq(S, n) == UNION {[1..k -> S] : k \in 0..n}

\* widths of every shape the isinstance chain distinguishes
WidthValues ==
    { WNone, WList,
      WStr(<<>>), WStr(<<"a">>), WStr(<<"2", "0", "%">>), WStr(<<"5", "0">>),
      WNum(0, 1), WNum(1, 5), WNum(1, 2), WNum(1, 1), WNum(5, 2), WNum(50, 1) }

Margins == {0, 720, 9359, 9360, 9400}

WidthColumns == {Column(w, PInt(0), None, None, None) : w \in WidthValues}

\* header, hfont, hcolor
HeaderSpecs ==
    { <<None, None, None>>,
      <<SomeStr("H"), None, None>>,
      <<SomeStr("H"), SomeInt(1), None>>,
      <<SomeStr("H"), None, SomeInt(2)>>,
      <<SomeStr("H"), SomeInt(1), SomeInt(2)>> }

HeaderColumns == {Column(WNum(1, 2), PInt(0), h[1], h[2], h[3]) : h \in HeaderSpecs}

Properties == {PInt(1), PStr(<<"a">>)}

DataColumns == {Column(WNum(1, 2), p, None, None, None) : p \in Properties}

RowValues ==
    { ListRow(<<"x">>), ListRow(<<"x", "y">>),
      DictRow(<<PStr(<<"a">>)>>, <<"z">>), DictRow(<<>>, <<>>), OtherRow }

\* Table(columns, data, lmargin): tables that differ in their widths
InitWidths ==
    /\ columns \in BoundedSeq(WidthColumns, MaxCols)
    /\ data = <<ListRow(<<"x">>)>>
    /\ lmargin \in Margins

\* percentage literals of one, two and three digits
PercentValues ==
    { WStr(<<"5", "%">>), WStr(<<"2", "0", "%">>), WStr(<<"1", "0", "0", "%">>) }

PercentColumns == {Column(w, PInt(0), None, None, None) : w \in PercentValues}

\* tables whose widths are percentage literals
InitPercent ==
    /\ columns \in BoundedSeq(PercentColumns, MaxCols)
    /\ data = <<ListRow(<<"x">>)>>
    /\ lmargin \in {0, 720}

\* tables that differ in their headers
InitHeaders ==
    /\ columns \in BoundedSeq(HeaderColumns, MaxCols)
    /\ data \in BoundedSeq({ListRow(<<"x">>)}, MaxRows)
    /\ lmargin = 0

\* tables that differ in their data rows
InitRows ==
    /\ columns \in BoundedSeq(DataColumns, MaxCols)
    /\ data \in BoundedSeq(RowValues, MaxRows)
    /\ lmargin = 0

\* no TextRun or Paragraph of interest
NoDocument ==
    /\ run = TextRun(<<>>, DefaultProps)
    /\ run_str = NoRunStr
    /\ para = Paragraph(FALSE, "j")
    /\ para_ds = FALSE
    /\ para_str = NoParagraphStr

Init ==
    /\ InitWidths \/ InitPercent \/ InitHeaders \/ InitRows
    /\ op = "init"
    /\ arg = <<>>
    /\ exc = "none"
    /\ extents = <<>>
    /\ rows = <<>>
    /\ value = ""
    /\ NoDocument

-----------------------------------------------------------------------------
(* Calls on the table *)

ColumnWidths ==
    \E r \in ColumnWidthsResult(columns, lmargin) :
        /\ op' = "column_widths"
        /\ arg' = <<>>
        /\ exc' = r.exc
        /\ extents' = r.extents
        /\ rows' = <<>>
        /\ value' = IF r.exc = "none" THEN rtf_widths(r.extents) ELSE ""
        /\ UNCHANGED <<columns, data, lmargin, run, run_str, para, para_ds, para_str>>

Str ==
    \E r \in StrResult(columns, data, lmargin) :
        /\ op' = "__str__"
        /\ arg' = <<>>
        /\ exc' = r.exc
        /\ extents' = <<>>
        /\ rows' = r.rows
        /\ value' = ""
        /\ UNCHANGED <<columns, data, lmargin, run, run_str, para, para_ds, para_str>>

HasHeaders ==
    /\ op' = "has_headers"
    /\ arg' = <<>>
    /\ exc' = "none"
    /\ extents' = <<>>
    /\ rows' = <<>>
    /\ value' = IF has_headers(columns) THEN "True" ELSE "False"
    /\ UNCHANGED <<columns, data, lmargin, run, run_str, para, para_ds, para_str>>

\* headers(cells) on the templates of the table: '{' + ''.join(headers) + '}\n'
Headers ==
    LET h == headers(columns, column_rtf_templates(columns), 1)
    IN  /\ op' = "headers"
        /\ arg' = <<>>
        /\ exc' = h.exc
        /\ extents' = <<>>
        /\ rows' = IF h.exc = "none"
                   THEN <<[kind |-> "header", r_idx |-> 0, begin |-> "{", widths |-> "",
                           cells |-> h.cells, end |-> "}\n"]>>
                   ELSE <<>>
        /\ value' = ""
        /\ UNCHANGED <<columns, data, lmargin, run, run_str, para, para_ds, para_str>>

DataValue ==
    \E c \in 1..Len(columns), r \in 1..Len(data) :
        /\ op' = "data_value"
        /\ arg' = <<c, r>>
        /\ exc' = data_value(columns[c], data[r]).exc
        /\ extents' = <<>>
        /\ rows' = <<>>
        /\ value' = data_value(columns[c], data[r]).v
        /\ UNCHANGED <<columns, data, lmargin, run, run_str, para, para_ds, para_str>>

-----------------------------------------------------------------------------
(* Vocabulary of the properties *)

Called(o) == op = o

Returned == exc = "none"

WidthOf(c) == columns[c].width

\* the number a width converts to, for the widths that convert
NumberOf(width) == ParseWidth(width).w

Converts(width) == ParseWidth(width).exc = "none"

IsFraction(width) == Converts(width) /\ ~RGt(NumberOf(width), RInt(1))

IsAbsolute(width) ==
    Converts(width) /\ RGt(NumberOf(width), RInt(1)) /\ IntWidth(width).exc = "none"

\* all columns are fractions 0 < f <= 1
FractionTable ==
    /\ columns # <<>>
    /\ \A c \in 1..Len(columns) : IsFraction(WidthOf(c)) /\ NumberOf(WidthOf(c))[1] > 0

\* all columns are absolute widths > 1
AbsoluteTable ==
    /\ columns # <<>>
    /\ \A c \in 1..Len(columns) : IsAbsolute(WidthOf(c))

\* declared widths in whole twips, and their running sum
Twips(c) == RTrunc(NumberOf(WidthOf(c)))

RECURSIVE TwipsUpTo(_)
TwipsUpTo(c) == IF c = 0 THEN 0 ELSE TwipsUpTo(c - 1) + Twips(c)

RECURSIVE FractionUpTo(_)
FractionUpTo(c) == IF c = 0 THEN RInt(0) ELSE RAdd(FractionUpTo(c - 1), NumberOf(WidthOf(c)))

\* an integer extent that is the float q truncated, give or take its rounding
Near(e, q) == e = RTrunc(q) \/ (RIsWhole(q) /\ e = q[1] - Sign(q[1]))

Available == doc_width - lmargin

NonDecreasing(e) == \A c \in 1..(Len(e) - 1) : e[c] <= e[c + 1]

StrictlyIncreasing(e) == \A c \in 1..(Len(e) - 1) : e[c] < e[c + 1]

-----------------------------------------------------------------------------
(* C1 *)

\* C1: for an all-fraction table (each 0 < f_i <= 1), column_widths gives
\* column i the width f_i / S * (9360 - L), so extent i is the running sum
\* of the fractions up to i, divided by S, times (9360 - L); for [0.5, 0.5]
\* and L = 0 the extents are 4680 and 9360.
C1_FractionWidthsTilePage ==
    (Called("column_widths") /\ FractionTable) =>
        /\ Returned
        /\ Len(extents) = Len(columns)
        /\ \A c \in 1..Len(columns) :
              Near(extents[c],
                   RMul(RDiv(FractionUpTo(c), FractionUpTo(Len(columns))),
                        RInt(Available)))
        /\ (lmargin = 0 /\ Len(columns) = 2
              /\ WidthOf(1) = WNum(1, 2) /\ WidthOf(2) = WNum(1, 2))
            => extents = <<4680, 9360>>

-----------------------------------------------------------------------------
(* C2 *)

\* C2 as stated: for an all-absolute table the extent of column i is the
\* sum of the declared widths of columns 0..i, whatever the page width and
\* the left margin.
C2_AbsoluteWidthsAsIs ==
    (Called("column_widths") /\ AbsoluteTable) =>
        /\ Returned
        /\ Len(extents) = Len(columns)
        /\ \A c \in 1..Len(columns) : extents[c] = TwipsUpTo(c)

\* C2 amended: for an all-absolute table column_widths rescales the declared
\* widths (in whole twips) to tile the page: extent i is the sum of the
\* widths of columns 0..i times (9360 - L) over the sum of all the widths,
\* truncated to an integer (one less in magnitude when the float falls just
\* short of a whole number); for [50, 50] and L = 0 the extents are 4680 and
\* 9360.
C2_AbsoluteWidthsRescaled ==
    (Called("column_widths") /\ AbsoluteTable) =>
        /\ Returned
        /\ Len(extents) = Len(columns)
        /\ \A c \in 1..Len(columns) :
              Near(extents[c], Rat(TwipsUpTo(c) * Available, TwipsUpTo(Len(columns))))
        /\ (lmargin = 0 /\ Len(columns) = 2
              /\ WidthOf(1) = WNum(50, 1) /\ WidthOf(2) = WNum(50, 1))
            => extents = <<4680, 9360>>

C2_Witness ==
    /\ Called("column_widths")
    /\ lmargin = 0
    /\ Len(columns) = 2
    /\ WidthOf(1) = WNum(50, 1)
    /\ WidthOf(2) = WNum(50, 1)
    /\ extents = <<4680, 9360>>

-----------------------------------------------------------------------------
(* C3 *)

\* C3: for an all-absolute table and any left margin L, the computed widths
\* sum to (9360 - L): the last extent is within one unit of it.
C3_AbsoluteSumFitsPage ==
    (Called("column_widths") /\ AbsoluteTable) =>
        /\ Returned
        /\ Len(extents) = Len(columns)
        /\ Abs(extents[Len(extents)] - (9360 - lmargin)) <= 1

C3_Witness ==
    /\ Called("column_widths")
    /\ AbsoluteTable
    /\ Len(columns) = 2
    /\ WidthOf(1) # WidthOf(2)
    /\ lmargin = 720
    /\ extents[2] = 8640

-----------------------------------------------------------------------------
(* C4 *)

\* every width converts to a number, one at most 1 and one above 1
MixedTable ==
    /\ \A c \in 1..Len(columns) : Converts(WidthOf(c))
    /\ \E c \in 1..Len(columns) : ~RGt(NumberOf(WidthOf(c)), RInt(1))
    /\ \E c \in 1..Len(columns) : RGt(NumberOf(WidthOf(c)), RInt(1))

\* C4: a table whose widths all convert to numbers, with a fraction column
\* and an absolute column in any order, makes column_widths raise the
\* configuration error (ValueError), and __str__ raises it too and returns
\* no rows.
C4_MixedWidthsRejected ==
    ((Called("column_widths") \/ Called("__str__")) /\ MixedTable) =>
        /\ exc = "ValueError"
        /\ rows = <<>>
        /\ extents = <<>>

C4_Witness ==
    /\ Called("__str__")
    /\ Len(columns) = 2
    /\ WidthOf(1) = WNum(50, 1)
    /\ WidthOf(2) = WNum(1, 2)
    /\ exc = "ValueError"
    /\ rows = <<>>

-----------------------------------------------------------------------------
(* C5 *)

AllZeroTable ==
    /\ columns # <<>>
    /\ \A c \in 1..Len(columns) :
          Converts(WidthOf(c)) /\ NumberOf(WidthOf(c))[1] = 0

\* C5: column_widths raises an error for an empty column list and for a
\* table whose widths are all zero; it returns no boundary-marker string.
C5_EmptyOrZeroRejected ==
    (Called("column_widths") /\ (columns = <<>> \/ AllZeroTable)) =>
        /\ ~Returned
        /\ value = ""

-----------------------------------------------------------------------------
(* C6 *)

\* non-empty, homogeneous, every width positive
PositiveTable == FractionTable \/ AbsoluteTable

\* the widths the extents accumulate
ComputedWidths ==
    LET res == Resolved(columns)
    IN  percent_widths(coerced_widths([c \in 1..Len(res) |-> res[c].w], lmargin),
                       use_percent(res), lmargin)

\* C6 as stated: the extents are strictly increasing and the last one is the
\* total of the computed widths.
C6_ExtentsStrictlyIncreasing ==
    (Called("column_widths") /\ PositiveTable) =>
        /\ Returned
        /\ Len(extents) = Len(columns)
        /\ StrictlyIncreasing(extents)
        /\ Near(extents[Len(extents)], RSum(ComputedWidths))

\* C6 amended: when the left margin is at most 9360, the extents are
\* non-decreasing, strictly increasing when every computed width is at least
\* two units, and the last one is the total of the computed widths
\* truncated to an integer.
C6_ExtentsNonDecreasing ==
    (Called("column_widths") /\ PositiveTable /\ lmargin <= 9360) =>
        /\ Returned
        /\ Len(extents) = Len(columns)
        /\ NonDecreasing(extents)
        /\ (\A c \in 1..Len(columns) : ~RGt(RInt(2), ComputedWidths[c]))
              => StrictlyIncreasing(extents)
        /\ Near(extents[Len(extents)], RSum(ComputedWidths))

C6_Witness ==
    /\ Called("column_widths")
    /\ PositiveTable
    /\ Len(columns) = 2
    /\ lmargin = 9360
    /\ extents = <<0, 0>>

-----------------------------------------------------------------------------
(* C7 *)

\* the row is a dict without the column's key, or a list too short for the
\* column's index
MissingField(column, row) ==
    \/ row.t = "dict" /\ \A k \in 1..Len(row.keys) : row.keys[k] # column.property
    \/ row.t = "list" /\ column.property.t = "int" /\ column.property.i >= Len(row.items)

\* the row holds the column's field
SuppliesField(column, row) ==
    \/ row.t = "dict" /\ \E k \in 1..Len(row.keys) : row.keys[k] = column.property
    \/ /\ row.t = "list" /\ column.property.t = "int"
       /\ column.property.i >= 0 /\ column.property.i < Len(row.items)

NoHeaderColour == \A c \in 1..Len(columns) : ~columns[c].hcolor.some

DataBlocksOf(blocks) == SelectSeq(blocks, LAMBDA b : b.kind = "data")

HeaderBlocksOf(blocks) == SelectSeq(blocks, LAMBDA b : b.kind = "header")

\* C7: for a row that lacks the column's field data_value returns "#ERR#"
\* and does not raise, and __str__ goes on to render every row, the cell of
\* the missing field holding "#ERR#".
C7_MissingFieldMarker ==
    /\ (Called("data_value") /\ MissingField(columns[arg[1]], data[arg[2]])) =>
          (Returned /\ value = "#ERR#")
    /\ (/\ Called("__str__") /\ PositiveTable /\ NoHeaderColour
        /\ \A c \in 1..Len(columns), r \in 1..Len(data) :
              SuppliesField(columns[c], data[r]) \/ MissingField(columns[c], data[r])
        /\ \E c \in 1..Len(columns), r \in 1..Len(data) :
              MissingField(columns[c], data[r])) =>
          /\ Returned
          /\ Len(DataBlocksOf(rows)) = Len(data)
          /\ \A c \in 1..Len(columns), r \in 1..Len(data) :
                MissingField(columns[c], data[r]) =>
                    DataBlocksOf(rows)[r].cells[c].text = "#ERR#"

-----------------------------------------------------------------------------
(* C8 *)

HeaderDeclared == \E c \in 1..Len(columns) : columns[c].header.some

\* every cell of every row can be extracted
RowsRenderable ==
    \A c \in 1..Len(columns), r \in 1..Len(data) :
        SuppliesField(columns[c], data[r]) \/ data[r].t = "other"

\* C8: __str__ renders no header block when no column declares a header, and
\* exactly one header block, ahead of every data block, when a column does,
\* whatever header fonts and colours the columns carry.
C8_HeaderBlockOnce ==
    (Called("__str__") /\ PositiveTable /\ RowsRenderable) =>
        /\ Returned
        /\ Len(HeaderBlocksOf(rows)) = IF HeaderDeclared THEN 1 ELSE 0
        /\ HeaderDeclared => rows[1].kind = "header"
        /\ Len(rows) = Len(HeaderBlocksOf(rows)) + Len(data)

-----------------------------------------------------------------------------
(* C9 *)

\* C9: for a table with valid widths and N data rows, __str__ returns
\* exactly N data blocks, the k-th rendered from the k-th input row.
C9_RowsInOrder ==
    (Called("__str__") /\ PositiveTable) =>
        /\ Returned
        /\ Len(DataBlocksOf(rows)) = Len(data)
        /\ \A k \in 1..Len(DataBlocksOf(rows)) :
              /\ DataBlocksOf(rows)[k].r_idx = k - 1
              /\ DataBlocksOf(rows)[k].cells =
                    data_row(columns, column_rtf_templates(columns), data[k], 1).cells

-----------------------------------------------------------------------------
(* C10 *)

AllDigits(s) == s # <<>> /\ \A k \in 1..Len(s) : s[k] \in Digits

PercentLiteral(s) == s # <<>> /\ s[Len(s)] = "%" /\ AllDigits(SubSeq(s, 1, Len(s) - 1))

NumericStr(s) == FloatStr(s).exc = "none"

\* neither a percentage literal, a number, nor a numeric string
InvalidShape(width) ==
    \/ width.t \in {"none", "list"}
    \/ width.t = "str" /\ ~PercentLiteral(width.s) /\ ~NumericStr(width.s)

\* C10: a column whose width is neither a percentage literal, a number nor a
\* numeric string makes column_widths raise the configuration error
\* (ValueError), and __str__ raises it too and returns no rows.
C10_InvalidWidthRejected ==
    (/\ Called("column_widths") \/ Called("__str__")
     /\ \E c \in 1..Len(columns) : InvalidShape(WidthOf(c))) =>
        /\ exc = "ValueError"
        /\ rows = <<>>
        /\ extents = <<>>

-----------------------------------------------------------------------------
(* C11 *)

\* N of the literal "N%"
PercentOf(width) == DigitsVal(SubSeq(width.s, 1, Len(width.s) - 1))

\* "N%" with N an integer from 1 to 100
PercentWidth(width) ==
    /\ width.t = "str"
    /\ PercentLiteral(width.s)
    /\ PercentOf(width) >= 1
    /\ PercentOf(width) <= 100

PercentTable ==
    /\ columns # <<>>
    /\ \A c \in 1..Len(columns) : PercentWidth(WidthOf(c))

\* the table with every "N%" replaced by the number N / 100
AsFractions == [c \in 1..Len(columns) |->
                   Column(WNum(PercentOf(WidthOf(c)), 100), columns[c].property,
                          columns[c].header, columns[c].hfont, columns[c].hcolor)]

\* C11: a width "N%", N an integer from 1 to 100 of one, two or three
\* digits, resolves to the fraction N / 100, so that column_widths gives the
\* table what it gives the same table with the numbers N / 100 as widths.
C11_PercentLiteralIsHundredth ==
    (Called("column_widths") /\ PercentTable) =>
        /\ \A c \in 1..Len(columns) :
              NumberOf(WidthOf(c)) = Rat(PercentOf(WidthOf(c)), 100)
        /\ [exc |-> exc, extents |-> extents] \in ColumnWidthsResult(AsFractions, lmargin)

-----------------------------------------------------------------------------
(* C12 *)

NumericTable ==
    /\ columns # <<>>
    /\ \A c \in 1..Len(columns) : WidthOf(c).t = "num"

AtMostOne(width) == width.n <= width.d

AllOnesTable ==
    /\ columns # <<>>
    /\ \A c \in 1..Len(columns) : WidthOf(c) = WNum(1, 1)

\* the table with every width replaced by the fraction 1 / (number of columns)
AsEqualShares == [c \in 1..Len(columns) |->
                     Column(WNum(1, Len(columns)), columns[c].property,
                            columns[c].header, columns[c].hfont, columns[c].hcolor)]

-----------------------------------------------------------------------------
(* C14 *)

\* the font marker, the colour marker, then the header text
DecoratedHeader(column) ==
    (IF column.hfont.some THEN "\\f" \o ToString(column.hfont.i) ELSE "")
    \o (IF column.hcolor.some THEN "\\cf" \o ToString(column.hcolor.i) ELSE "")
    \o " " \o column.header.s

\* C14: headers() completes without raising for every combination of hfont
\* and hcolor, and the cell of every column that declares a header holds the
\* font marker (if any) and the colour marker (if any) before the header text.
C14_HeaderDecorations ==
    Called("headers") =>
        /\ Returned
        /\ \A c \in 1..Len(columns) :
              columns[c].header.some =>
                  \E k \in 1..Len(rows[1].cells) :
                      rows[1].cells[k].text = DecoratedHeader(columns[c])

-----------------------------------------------------------------------------
(* C15 *)

PartialHeaders ==
    /\ \E c \in 1..Len(columns) : columns[c].header.some
    /\ \E c \in 1..Len(columns) : ~columns[c].header.some

\* C15: when some columns declare a header and others do not, the header
\* row that __str__ renders has one cell per column, in column order, the
\* cell of a column without header being blank.
C15_HeaderCellPerColumn ==
    (Called("__str__") /\ PositiveTable /\ PartialHeaders /\ Returned) =>
        /\ rows # <<>>
        /\ rows[1].kind = "header"
        /\ Len(rows[1].cells) = Len(columns)
        /\ Len(rows[1].cells) = Len(column_rtf_templates(columns))
        /\ \A c \in 1..Len(columns) :
              IF columns[c].header.some
              THEN rows[1].cells[c].text = DecoratedHeader(columns[c])
              ELSE rows[1].cells[c].text \in {"", " "}

-----------------------------------------------------------------------------
(* Text runs and paragraphs explored *)

\* no Table of interest
NoTable ==
    /\ columns = <<>>
    /\ data = <<>>
    /\ lmargin = 0
    /\ op = "init"
    /\ arg = <<>>
    /\ exc = "none"
    /\ extents = <<>>
    /\ rows = <<>>
    /\ value = ""

TextAlphabet == {"a", " ", "_", "."}

Prefixes == {<<>>, <<"a">>, <<"s", "o", ",", " ", "a">>, <<"x", ".">>}

Words == {<<"b">>, <<"b", "o", "l", "d">>, <<"x", ".", "y">>}

Suffixes == {<<>>, <<"w", "o", "r", "d">>, <<",", " ", "a", " ", "b">>, <<".", " ", "A">>}

\* <prefix> __<word>__ <suffix>
BoldText(p, w, x) == p \o <<" ", "_", "_">> \o w \o <<"_", "_", " ">> \o x

BoldTexts == {BoldText(p, w, x) : p \in Prefixes, w \in Words, x \in Suffixes}

OtherTexts ==
    { <<"[", "[", "a", "]", "]">>,
      <<"a", "\\", "n", "b">>,
      <<"[", "N", "O", "T", "E", ":", " ", "a", "]">>,
      <<"a", " ", "_", "_", "b", "_", "_", ",", " ", "c">>,
      <<"a", "n", " ", "_", "a", "_", " ", "b">> }

Texts == BoundedSeq(TextAlphabet, MaxLen) \cup BoldTexts \cup OtherTexts

PropsValues ==
    { DefaultProps,
      Props(None, TRUE, FALSE, None, FALSE, FALSE, FALSE, FALSE),
      Props(SomeInt(2), FALSE, FALSE, SomeStr(""), FALSE, FALSE, FALSE, FALSE),
      Props(None, FALSE, TRUE, SomeStr("db"), TRUE, TRUE, TRUE, TRUE) }

\* TextRun(text, props)
InitTextRun ==
    /\ NoTable
    /\ run \in {TextRun(t, pr) : t \in Texts, pr \in PropsValues}
    /\ run_str = NoRunStr
    /\ para = Paragraph(FALSE, "j")
    /\ para_ds = FALSE
    /\ para_str = NoParagraphStr

\* str(run)
TextRunStr ==
    /\ run_str' = RunStr(run)
    /\ UNCHANGED <<columns, data, lmargin, op, arg, exc, extents, rows, value,
                   run, para, para_ds, para_str>>

NextTextRun == TextRunStr

SpecTextRun == InitTextRun /\ [][NextTextRun]_vars

Alignments == {"l", "r", "c", "j"}

ParagraphRuns ==
    { TextRun(<<"a", " ", "_", "_", "b", "o", "l", "d", "_", "_", " ", "w", "o", "r", "d">>, DefaultProps),
      TextRun(<<"a">>, Props(None, TRUE, FALSE, None, FALSE, FALSE, FALSE, FALSE)),
      TextRun(<<>>, DefaultProps) }

\* Paragraph(double_space, alignment)
InitParagraph ==
    /\ NoTable
    /\ run = TextRun(<<>>, DefaultProps)
    /\ run_str = NoRunStr
    /\ para_ds \in BOOLEAN
    /\ para \in {Paragraph(para_ds, a) : a \in Alignments}
    /\ para_str = NoParagraphStr

SetHeader ==
    /\ para' = set_header(para)
    /\ UNCHANGED <<columns, data, lmargin, op, arg, exc, extents, rows, value,
                   run, run_str, para_ds, para_str>>

AddText ==
    /\ Len(para.text) < MaxRuns
    /\ \E r \in ParagraphRuns : para' = add_text(para, r)
    /\ UNCHANGED <<columns, data, lmargin, op, arg, exc, extents, rows, value,
                   run, run_str, para_ds, para_str>>

\* str(para)
ParagraphToStr ==
    /\ para_str' = ParagraphStr(para)
    /\ UNCHANGED <<columns, data, lmargin, op, arg, exc, extents, rows, value,
                   run, run_str, para, para_ds>>

NextParagraph == SetHeader \/ AddText \/ ParagraphToStr

SpecParagraph == InitParagraph /\ [][NextParagraph]_vars

-----------------------------------------------------------------------------
(* C13 *)

Markers == {"_", "[", "]", "\\"}

\* text without any shorthand marker
MarkerFree(t) == \A k \in 1..Len(t) : t[k] \notin Markers

\* a word: not empty, no space, no shorthand marker
IsWord(t) == t # <<>> /\ MarkerFree(t) /\ \A k \in 1..Len(t) : t[k] # " "

BoldOn == <<" ", "\\", "b", " ">>

BoldOff == <<"\\", "b", "0", " ", " ">>

HasItalic(t) == \E k \in 1..(Len(t) - 1) : t[k] = "\\" /\ t[k + 1] = "i"

\* C13: for a text <prefix> __<word>__ <suffix>, the word free of spaces and
\* prefix, word and suffix free of shorthand markers, md2rtf returns the
\* prefix, the bold-on sequence, the word, the bold-off sequence and the
\* suffix, with no italic sequence; "a __bold__ word" is such a text.
C13_BoldShorthand ==
    /\ \A i \in 0..Len(run.raw), j \in 0..Len(run.raw) :
          LET p == SubSeq(run.raw, 1, i)
              w == SubSeq(run.raw, i + 4, j)
              x == SubSeq(run.raw, j + 4, Len(run.raw))
          IN  (/\ i + 4 <= j + 1
               /\ j + 3 <= Len(run.raw)
               /\ run.raw = BoldText(p, w, x)
               /\ MarkerFree(p) /\ IsWord(w) /\ MarkerFree(x)) =>
                  /\ run.text = p \o BoldOn \o w \o BoldOff \o x
                  /\ ~HasItalic(run.text)
    /\ run.raw = <<"a", " ", "_", "_", "b", "o", "l", "d", "_", "_", " ", "w", "o", "r", "d">> =>
          run.text = <<"a", " ", "\\", "b", " ", "b", "o", "l", "d", "\\", "b", "0", " ", " ", "w", "o", "r", "d">>

C13_Witness ==
    /\ run.raw = <<"a", " ", "_", "_", "b", "o", "l", "d", "_", "_", " ", "w", "o", "r", "d">>
    /\ run.text = <<"a", " ", "\\", "b", " ", "b", "o", "l", "d", "\\", "b", "0", " ", " ", "w", "o", "r", "d">>
    /\ run_str.called

-----------------------------------------------------------------------------
(* C16 *)

DoubleSpacing == "\\sl480\\slmult1"

\* C16: a Paragraph built with double_space=True renders with the
\* double-spacing markup and one built with double_space=False renders
\* without it, whatever add_text and set_header calls came in between.
C16_DoubleSpaceOption ==
    para_str.called =>
        para_str.spacing = IF para_ds THEN DoubleSpacing ELSE ""

Next == ColumnWidths \/ Str \/ HasHeaders \/ Headers \/ DataValue

Spec == Init /\ [][Next]_vars

====
